---- MODULE Spec2Model ----
(***************************************************************************)
(* RiskRadar backend: the risk score aggregator (risk_calculator.py) and   *)
(* the Monte Carlo simulator (monte_carlo.py) over the two history tables  *)
(* of database.py.                                                         *)
(*                                                                         *)
(* Numbers.  A Python float is a fixed-point integer counting thousandths  *)
(* (Milli): 50.0 is 50000, 8% is 8000.  A quotient is rounded to the       *)
(* nearest thousandth.  SEC revenue values are whole units (only their     *)
(* ratio std/mean is used, and it is scale free).                          *)
(*                                                                         *)
(* A JSON value that the code parses with float() is a token:              *)
(*   [kind |-> "num", v |-> n]   a numeric value                           *)
(*   [kind |-> "bad", v |-> 0]   a value float() rejects (FRED's ".")      *)
(*   [kind |-> "missing", v |-> 0]  the key is absent (dict.get default)   *)
(* A fetcher's answer is a source [st, vals]: st = "none" is None, "raise" *)
(* is an exception out of the fetcher (the cache query has no handler),    *)
(* "data" is a response carrying the list vals; the response shapes that   *)
(* lack a key the code tests for have their own st.                        *)
(*                                                                         *)
(* A dict (raw_data) is the sequence of its <<key, value>> pairs in        *)
(* insertion order.                                                        *)
(***************************************************************************)
EXTENDS Integers, Sequences, FiniteSets, TLC

VARIABLES
    history,     \* table risk_scores, in insertion order
    mcHistory,   \* table monte_carlo_results, in insertion order
    clock,       \* datetime.utcnow() of the next insert
    call,        \* the last public operation: its inputs and what it returned
    steps,       \* number of public operations performed
    threads,     \* category computations running in parallel, one per category
    cache        \* table risk_data_cache and the sessions working on it

vars == <<history, mcHistory, clock, call, steps, threads, cache>>

(***************************************************************************)
(* Arithmetic                                                              *)
(***************************************************************************)
Milli == 1000

Abs(x) == IF x < 0 THEN -x ELSE x

\* Python min(a, b) and max(a, b): the first argument unless the second beats it
PyMin(a, b) == IF b < a THEN b ELSE a
PyMax(a, b) == IF b > a THEN b ELSE a

\* a / b for b > 0, to the nearest unit (half away from zero)
FDiv(a, b) ==
    IF a >= 0 THEN (2 * a + b) \div (2 * b)
    ELSE -((2 * (-a) + b) \div (2 * b))

\* round(x, 2): to the nearest hundredth, a tie to the even hundredth
Round2(x) ==
    LET q == x \div 10
        r == x % 10
    IN  IF r < 5 THEN 10 * q
        ELSE IF r > 5 THEN 10 * (q + 1)
        ELSE IF q % 2 = 0 THEN 10 * q ELSE 10 * (q + 1)

RECURSIVE SqrtSearch(_, _, _)
SqrtSearch(n, lo, hi) ==
    IF lo >= hi THEN lo
    ELSE LET mid == (lo + hi + 1) \div 2
         IN  IF mid * mid <= n THEN SqrtSearch(n, mid, hi)
             ELSE SqrtSearch(n, lo, mid - 1)

\* floor of the square root of n, 0 <= n < 2^31
ISqrt(n) == SqrtSearch(n, 0, 46340)

RECURSIVE SeqSum(_)
SeqSum(s) == IF s = <<>> THEN 0 ELSE Head(s) + SeqSum(Tail(s))

RECURSIVE SeqSumSq(_)
SeqSumSq(s) == IF s = <<>> THEN 0 ELSE Head(s) * Head(s) + SeqSumSq(Tail(s))

\* s[:n]
Take(s, n) == SubSeq(s, 1, PyMin(Len(s), n))

\* s[-n:]
LastN(s, n) == SubSeq(s, PyMax(1, Len(s) - n + 1), Len(s))

(***************************************************************************)
(* Tokens and sources                                                      *)
(***************************************************************************)
Num(n) == [kind |-> "num", v |-> n]

\* BLS unemployment rates are kept Fine times finer than scores, so that a score
\* can fall between two hundredths
Fine == 10
Rate(n) == Num(n * Fine)
Bad == [kind |-> "bad", v |-> 0]
Missing == [kind |-> "missing", v |-> 0]

NoData == [st |-> "none", vals |-> <<>>]
FetchRaises == [st |-> "raise", vals |-> <<>>]
Data(vals) == [st |-> "data", vals |-> vals]

\* float(d.get(key, default)): the value, or an exception
PyFloat(tok, default) ==
    IF tok.kind = "bad" THEN [exc |-> TRUE, v |-> 0]
    ELSE IF tok.kind = "missing" THEN [exc |-> FALSE, v |-> default]
    ELSE [exc |-> FALSE, v |-> tok.v]

\* the running state of a category formula: an exception, or score and raw_data
Raised == [exc |-> TRUE, score |-> 0, raw |-> <<>>]
Running(score, raw) == [exc |-> FALSE, score |-> score, raw |-> raw]

\* mutant of Clamp: the lower bound forgotten
ClampUpperOnly(score) == PyMin(100 * Milli, score)

\* max(0, min(100, score))
Clamp(score) == PyMax(0, PyMin(100 * Milli, score))

(***************************************************************************)
(* Score aggregator: the four category formulas                            *)
(***************************************************************************)
ErrorMarker == << <<"error", "Calculation failed, using default">> >>

\* stock term: volatility of the quote's percent change
MarketStock(s, stock) ==
    IF s.exc \/ stock.st # "data" THEN s
    ELSE LET change_percent == PyFloat(stock.vals[1], 0)
         IN  IF change_percent.exc THEN Raised
             ELSE LET volatility_score ==
                          PyMin(100 * Milli, 50 * Milli + Abs(change_percent.v) * 2)
                  IN  Running((s.score + volatility_score) \div 2,
                              Append(s.raw, <<"stock_change", change_percent.v>>))

\* mutant of MarketGdp: growth of either sign raises the score
MarketGdpAnySign(s, gdp) ==
    IF s.exc \/ gdp.st # "data" THEN s
    ELSE LET observations == Take(gdp.vals, 2)
         IN  IF Len(observations) < 2 THEN s
             ELSE LET recent == PyFloat(observations[1], 0)
                      previous == PyFloat(observations[2], 0)
                  IN  IF recent.exc \/ previous.exc THEN Raised
                      ELSE IF previous.v > 0
                      THEN LET gdp_growth ==
                                   FDiv((recent.v - previous.v) * 100 * Milli, previous.v)
                           IN  Running(s.score + Abs(gdp_growth) * 5,
                                       Append(s.raw, <<"gdp_growth", gdp_growth>>))
                      ELSE s

\* GDP term: growth between the two newest observations, counted when negative
MarketGdp(s, gdp) ==
    IF s.exc \/ gdp.st # "data" THEN s
    ELSE LET observations == Take(gdp.vals, 2)
         IN  IF Len(observations) < 2 THEN s
             ELSE LET recent == PyFloat(observations[1], 0)
                      previous == PyFloat(observations[2], 0)
                  IN  IF recent.exc \/ previous.exc THEN Raised
                      ELSE IF previous.v > 0
                      THEN LET gdp_growth ==
                                   FDiv((recent.v - previous.v) * 100 * Milli, previous.v)
                           IN  Running(IF gdp_growth < 0
                                       THEN s.score + Abs(gdp_growth) * 5
                                       ELSE s.score,
                                       Append(s.raw, <<"gdp_growth", gdp_growth>>))
                      ELSE s

\* unemployment term: the newest observation, read without a length test
MarketUnrate(s, unrate) ==
    IF s.exc \/ unrate.st # "data" THEN s
    ELSE IF Len(unrate.vals) = 0 THEN Raised
    ELSE LET unemployment == PyFloat(unrate.vals[1], 0)
         IN  IF unemployment.exc THEN Raised
             ELSE Running(s.score + unemployment.v * 2,
                          Append(s.raw, <<"unemployment", unemployment.v>>))

\* the try block of calculate_market_risk up to the clamp
MarketFormula(stock, gdp, unrate) ==
    IF "raise" \in {stock.st, gdp.st, unrate.st} THEN Raised
    ELSE MarketUnrate(MarketGdp(MarketStock(Running(50 * Milli, <<>>), stock), gdp),
                      unrate)

RECURSIVE TokenValues(_)
TokenValues(toks) ==
    IF toks = <<>> THEN <<>> ELSE <<Head(toks).v>> \o TokenValues(Tail(toks))

\* the try block of calculate_supply_chain_risk up to the clamp
SupplyChainFormula(news) ==
    IF news.st = "raise" THEN Raised
    ELSE IF news.st # "data" THEN Running(50 * Milli, <<>>)
    ELSE LET article_count == Len(news.vals)
             risk_adjustment == PyMin(30 * Milli, article_count * 1500)
         IN  Running(50 * Milli + risk_adjustment,
                     << <<"news_articles", article_count>>,
                        <<"recent_news", TokenValues(Take(news.vals, 5))>> >>)

RECURSIVE FloatAll(_)
\* [float(r.get("val", 0)) for r in toks]: the values, or an exception
FloatAll(toks) ==
    IF toks = <<>> THEN [exc |-> FALSE, vs |-> <<>>]
    ELSE LET f == PyFloat(Head(toks), 0)
             rest == FloatAll(Tail(toks))
         IN  IF f.exc \/ rest.exc THEN [exc |-> TRUE, vs |-> <<>>]
             ELSE [exc |-> FALSE, vs |-> <<f.v>> \o rest.vs]

\* np.std(values) / np.mean(values) if np.mean(values) > 0 else 0, in thousandths:
\* std/mean = sqrt(n*sum(v^2) - sum(v)^2) / sum(v)
Volatility(values) ==
    LET n == Len(values)
        sum == SeqSum(values)
        d == n * SeqSumSq(values) - sum * sum
    IN  IF sum > 0 THEN FDiv(ISqrt(d * Milli * Milli), sum) ELSE 0

\* the try block of calculate_regulatory_risk up to the clamp
RegulatoryFormula(sec) ==
    IF sec.st = "raise" THEN Raised
    ELSE IF sec.st # "data" \/ Len(sec.vals) < 2 THEN Running(50 * Milli, <<>>)
    ELSE LET values == FloatAll(LastN(sec.vals, 4))
         IN  IF values.exc THEN Raised
             ELSE LET volatility == Volatility(values.vs)
                  IN  Running(50 * Milli + volatility * 20,
                              << <<"revenue_volatility", volatility>>,
                                 <<"filing_count", Len(sec.vals)>> >>)

\* mutant of HrFormula: the change is added whatever its sign
HrFormulaAnyChange(bls) ==
    IF bls.st = "raise" THEN Raised
    ELSE IF bls.st # "data" \/ Len(bls.vals) < 2 THEN Running(50 * Milli, <<>>)
    ELSE LET recent == PyFloat(bls.vals[1], 0)
             previous == PyFloat(bls.vals[2], 0)
         IN  IF recent.exc \/ previous.exc THEN Raised
             ELSE Running(50 * Milli + FDiv((recent.v - previous.v) * 10, Fine),
                          << <<"unemployment_rate", recent.v>>,
                             <<"unemployment_change", recent.v - previous.v>> >>)

\* the try block of calculate_hr_risk up to the clamp; BLS rates are in
\* ten-thousandths, the score in thousandths
HrFormula(bls) ==
    IF bls.st = "raise" THEN Raised
    ELSE IF bls.st # "data" \/ Len(bls.vals) < 2 THEN Running(50 * Milli, <<>>)
    ELSE LET recent == PyFloat(bls.vals[1], 0)
             previous == PyFloat(bls.vals[2], 0)
         IN  IF recent.exc \/ previous.exc THEN Raised
             ELSE Running(IF recent.v > previous.v
                          THEN 50 * Milli + FDiv((recent.v - previous.v) * 10, Fine)
                          ELSE 50 * Milli,
                          << <<"unemployment_rate", recent.v>>,
                             <<"unemployment_change", recent.v - previous.v>> >>)

(***************************************************************************)
(* Score aggregator: storing and returning                                 *)
(***************************************************************************)
\* mutant of StoreRiskScore: the row is added but never committed
StoreRiskScoreNoCommit(h, category, score, raw_data, now, commitOk) == h

\* mutant of StoreRiskScore: one row per category, overwritten by each insert
StoreRiskScoreUpsert(h, category, score, raw_data, now, commitOk) ==
    LET Other(row) == row.risk_category # category
        kept == SelectSeq(h, Other)
    IN  IF commitOk
        THEN Append(kept, [id |-> Len(kept) + 1, risk_category |-> category,
                           score |-> score, raw_data |-> raw_data,
                           calculated_at |-> now])
        ELSE h

\* _store_risk_score: an insert, or nothing when the commit fails (rolled back)
StoreRiskScore(h, category, score, raw_data, now, commitOk) ==
    IF commitOk
    THEN Append(h, [id |-> Len(h) + 1, risk_category |-> category, score |-> score,
                    raw_data |-> raw_data, calculated_at |-> now])
    ELSE h

\* mutant of DefaultRisk: a default score of 0.0
DefaultRiskZero(category, now) ==
    [category |-> category, score |-> 0, raw_data |-> ErrorMarker,
     calculated_at |-> now]

\* _default_risk
DefaultRisk(category, now) ==
    [category |-> category, score |-> 50 * Milli, raw_data |-> ErrorMarker,
     calculated_at |-> now]

\* mutant of RiskOutcome: the except branch stores the default record too
RiskOutcomeDefaultStored(category, f, h, now, commitOk) ==
    IF f.exc
    THEN [result |-> DefaultRisk(category, now + 1),
          history |-> StoreRiskScore(h, category, 50 * Milli, ErrorMarker, now, TRUE),
          now |-> now + 1]
    ELSE LET final_score == Clamp(f.score)
             now2 == IF commitOk THEN now + 1 ELSE now
         IN  [result |-> [category |-> category, score |-> Round2(final_score),
                          raw_data |-> f.raw, calculated_at |-> now2],
              history |-> StoreRiskScore(h, category, final_score, f.raw, now, commitOk),
              now |-> now2]

\* mutant of RiskOutcome: a failing store reaches the except branch
RiskOutcomeStoreFailureDefault(category, f, h, now, commitOk) ==
    IF f.exc \/ ~commitOk
    THEN [result |-> DefaultRisk(category, now), history |-> h, now |-> now]
    ELSE LET final_score == Clamp(f.score)
         IN  [result |-> [category |-> category, score |-> Round2(final_score),
                          raw_data |-> f.raw, calculated_at |-> now + 1],
              history |-> StoreRiskScore(h, category, final_score, f.raw, now, commitOk),
              now |-> now + 1]

\* the tail of a calculate_*_risk method: clamp, store, return; or the except branch
RiskOutcome(category, f, h, now, commitOk) ==
    IF f.exc
    THEN [result |-> DefaultRisk(category, now), history |-> h, now |-> now]
    ELSE LET final_score == Clamp(f.score)
             now2 == IF commitOk THEN now + 1 ELSE now
         IN  [result |-> [category |-> category, score |-> Round2(final_score),
                          raw_data |-> f.raw, calculated_at |-> now2],
              history |-> StoreRiskScore(h, category, final_score, f.raw, now, commitOk),
              now |-> now2]

\* mutant of WeightedSum: hr weighted 0.25 like its neighbours
WeightedSumHrQuarter(market, supply_chain, regulatory, hr) ==
    market * 300 + supply_chain * 250 + regulatory * 250 + hr * 250

\* market*0.3 + supply_chain*0.25 + regulatory*0.25 + hr*0.2, in millionths
WeightedSum(market, supply_chain, regulatory, hr) ==
    market * 300 + supply_chain * 250 + regulatory * 250 + hr * 200

\* round(overall, 2), back in thousandths
Overall(market, supply_chain, regulatory, hr) ==
    Round2(FDiv(WeightedSum(market, supply_chain, regulatory, hr), Milli))

NoSim == <<>>
NoScen == <<>>
NoInfo == [use_cached |-> FALSE, readOk |-> TRUE, scores |-> <<>>, sampled |-> FALSE,
           risk_mean |-> 0, risk_std |-> 0, samples |-> <<>>]

RiskCall(op, inp, commit, results, overall) ==
    [op |-> op, inp |-> inp, commit |-> commit, raised |-> FALSE, risk |-> results,
     overall |-> overall, sim |-> NoSim, scen |-> NoScen, info |-> NoInfo]

CategoryAction(op, inp, f, commitOk) ==
    LET o == RiskOutcome(op, f, history, clock, commitOk)
    IN  /\ history' = o.history
        /\ clock' = o.now
        /\ call' = RiskCall(op, inp, <<commitOk>>, <<o.result>>, 0)
        /\ steps' = steps + 1
        /\ UNCHANGED <<mcHistory, threads, cache>>

CalculateMarketRisk(stock, gdp, unrate, commitOk) ==
    CategoryAction("market", <<stock, gdp, unrate>>,
                   MarketFormula(stock, gdp, unrate), commitOk)

CalculateSupplyChainRisk(news, commitOk) ==
    CategoryAction("supply_chain", <<news>>, SupplyChainFormula(news), commitOk)

CalculateRegulatoryRisk(sec, commitOk) ==
    CategoryAction("regulatory", <<sec>>, RegulatoryFormula(sec), commitOk)

CalculateHrRisk(bls, commitOk) ==
    CategoryAction("hr", <<bls>>, HrFormula(bls), commitOk)

\* calculate_all_risks: the four computations in order, then the weighted sum
CalculateAllRisks(stock, gdp, unrate, news, sec, bls, commit) ==
    LET m == RiskOutcome("market", MarketFormula(stock, gdp, unrate),
                         history, clock, commit[1])
        s == RiskOutcome("supply_chain", SupplyChainFormula(news),
                         m.history, m.now, commit[2])
        r == RiskOutcome("regulatory", RegulatoryFormula(sec),
                         s.history, s.now, commit[3])
        h == RiskOutcome("hr", HrFormula(bls), r.history, r.now, commit[4])
    IN  /\ history' = h.history
        /\ clock' = h.now
        /\ call' = RiskCall("all", <<stock, gdp, unrate, news, sec, bls>>, commit,
                            <<m.result, s.result, r.result, h.result>>,
                            Overall(m.result.score, s.result.score,
                                    r.result.score, h.result.score))
        /\ steps' = steps + 1
        /\ UNCHANGED <<mcHistory, threads, cache>>

(***************************************************************************)
(* Monte Carlo simulator                                                   *)
(*                                                                         *)
(* An array of samples is a sequence of runs [v |-> value, n |-> count] in *)
(* drawing order: the value v drawn n times in a row.  A normal            *)
(* distribution with a positive deviation can produce any real, so the     *)
(* draws are an input of the operation.  NaN is what numpy returns for a   *)
(* statistic of an empty array.                                            *)
(***************************************************************************)
NaN == -(Milli * Milli)

RECURSIVE InsertDesc(_, _)
InsertDesc(row, sorted) ==
    IF sorted = <<>> \/ row.calculated_at > Head(sorted).calculated_at
    THEN <<row>> \o sorted
    ELSE <<Head(sorted)>> \o InsertDesc(row, Tail(sorted))

RECURSIVE OrderByCalculatedAtDesc(_)
\* .order_by(RiskScore.calculated_at.desc())
OrderByCalculatedAtDesc(rows) ==
    IF rows = <<>> THEN <<>>
    ELSE InsertDesc(Head(rows), OrderByCalculatedAtDesc(Tail(rows)))

\* .filter(RiskScore.risk_category == risk_category)
FilterCategory(rows, risk_category) ==
    LET Match(row) == row.risk_category = risk_category
    IN  SelectSeq(rows, Match)

RECURSIVE RowScores(_)
\* [score.score for score in scores]
RowScores(rows) ==
    IF rows = <<>> THEN <<>> ELSE <<Head(rows).score>> \o RowScores(Tail(rows))

\* mutant of GetHistoricalScores: the ordering is ascending
GetHistoricalScoresOldestFirst(h, risk_category, limit, readOk) ==
    IF readOk THEN RowScores(Take(FilterCategory(h, risk_category), limit)) ELSE <<>>

\* _get_historical_scores: the query, or [] when it raises
GetHistoricalScores(h, risk_category, limit, readOk) ==
    IF readOk
    THEN RowScores(Take(OrderByCalculatedAtDesc(FilterCategory(h, risk_category)),
                        limit))
    ELSE <<>>

RECURSIVE Count(_)
Count(runs) == IF runs = <<>> THEN 0 ELSE Head(runs).n + Count(Tail(runs))

RECURSIVE RunSum(_)
RunSum(runs) ==
    IF runs = <<>> THEN 0 ELSE Head(runs).v * Head(runs).n + RunSum(Tail(runs))

RECURSIVE RunSumSq(_, _, _)
\* sum of n * ((v - mean) / unit)^2
RunSumSq(runs, mean, unit) ==
    IF runs = <<>> THEN 0
    ELSE LET d == FDiv(Head(runs).v - mean, unit)
         IN  Head(runs).n * d * d + RunSumSq(Tail(runs), mean, unit)

RECURSIVE AsRuns(_)
\* a list of floats as an array
AsRuns(xs) ==
    IF xs = <<>> THEN <<>> ELSE <<[v |-> Head(xs), n |-> 1]>> \o AsRuns(Tail(xs))

\* np.mean
NpMean(runs) == IF Count(runs) = 0 THEN NaN ELSE FDiv(RunSum(runs), Count(runs))

RECURSIVE MaxAbsDev(_, _)
MaxAbsDev(runs, mean) ==
    IF runs = <<>> THEN 0
    ELSE PyMax(Abs(Head(runs).v - mean), MaxAbsDev(Tail(runs), mean))

\* the finest precision (in thousandths) at which the sum of the squared
\* deviations stays below 2^31
StdUnit(runs, mean) ==
    LET Fits(unit) ==
            LET m == MaxAbsDev(runs, mean) \div unit + 1
            IN  m <= 46340 /\ m * m <= 2147483647 \div Count(runs)
    IN  IF Fits(1) THEN 1 ELSE IF Fits(10) THEN 10 ELSE IF Fits(100) THEN 100 ELSE Milli

\* np.std: the population deviation, rounded down to StdUnit
NpStd(runs) ==
    LET count == Count(runs)
        mean == NpMean(runs)
        unit == StdUnit(runs, mean)
    IN  IF count = 0 THEN NaN
        ELSE unit * ISqrt(RunSumSq(runs, mean, unit) \div count)

RECURSIVE ClipRuns(_)
\* np.clip(simulations, 0, 100)
ClipRuns(runs) ==
    IF runs = <<>> THEN <<>>
    ELSE <<[v |-> IF Head(runs).v < 0 THEN 0
                  ELSE IF Head(runs).v > 100 * Milli THEN 100 * Milli
                  ELSE Head(runs).v,
            n |-> Head(runs).n]>> \o ClipRuns(Tail(runs))

RECURSIVE InsertAsc(_, _)
InsertAsc(run, sorted) ==
    IF sorted = <<>> \/ run.v <= Head(sorted).v THEN <<run>> \o sorted
    ELSE <<Head(sorted)>> \o InsertAsc(run, Tail(sorted))

RECURSIVE SortRuns(_)
SortRuns(runs) ==
    IF runs = <<>> THEN <<>> ELSE InsertAsc(Head(runs), SortRuns(Tail(runs)))

RECURSIVE ValueAt(_, _)
\* the element at 0-based index k of the sorted array
ValueAt(sorted, k) ==
    IF k < Head(sorted).n \/ Len(sorted) = 1 THEN Head(sorted).v
    ELSE ValueAt(Tail(sorted), k - Head(sorted).n)

\* np.percentile(a, q): linear interpolation between the two nearest ranks
NpPercentile(runs, q) ==
    LET count == Count(runs)
        sorted == SortRuns(runs)
        pos == q * (count - 1)
        lo == pos \div 100
        frac == pos % 100
        a == ValueAt(sorted, lo)
        b == ValueAt(sorted, PyMin(count - 1, lo + 1))
    IN  IF count = 0 THEN NaN ELSE a + FDiv(frac * (b - a), 100)

\* the statistics of an array of clipped samples
Statistics(simulations) ==
    [mean |-> NpMean(simulations), std |-> NpStd(simulations),
     percentiles |-> [p5 |-> NpPercentile(simulations, 5),
                      p50 |-> NpPercentile(simulations, 50),
                      p95 |-> NpPercentile(simulations, 95)]]

\* mutant of SimulationParameters: one historical score is taken as enough
SimulationParametersOneScore(historical_scores) ==
    IF Len(historical_scores) < 1
    THEN [risk_mean |-> 50 * Milli, risk_std |-> 15 * Milli]
    ELSE LET scores_array == AsRuns(historical_scores)
             risk_std == NpStd(scores_array)
         IN  [risk_mean |-> NpMean(scores_array),
              risk_std |-> IF risk_std < 1 * Milli THEN 10 * Milli ELSE risk_std]

\* mutant of SimulationParameters: the deviation is used as computed
SimulationParametersNoFloor(historical_scores) ==
    IF Len(historical_scores) < 2
    THEN [risk_mean |-> 50 * Milli, risk_std |-> 15 * Milli]
    ELSE LET scores_array == AsRuns(historical_scores)
         IN  [risk_mean |-> NpMean(scores_array), risk_std |-> NpStd(scores_array)]

\* mutant of SimulationParameters: the fallback's deviation 10.0 as the default one
SimulationParametersFallbackDeviation(historical_scores) ==
    IF Len(historical_scores) < 2
    THEN [risk_mean |-> 50 * Milli, risk_std |-> 10 * Milli]
    ELSE LET scores_array == AsRuns(historical_scores)
             risk_std == NpStd(scores_array)
         IN  [risk_mean |-> NpMean(scores_array),
              risk_std |-> IF risk_std < 1 * Milli THEN 10 * Milli ELSE risk_std]

\* the parameters of the normal distribution
SimulationParameters(historical_scores) ==
    IF Len(historical_scores) < 2
    THEN [risk_mean |-> 50 * Milli, risk_std |-> 15 * Milli]
    ELSE LET scores_array == AsRuns(historical_scores)
             risk_std == NpStd(scores_array)
         IN  [risk_mean |-> NpMean(scores_array),
              risk_std |-> IF risk_std < 1 * Milli THEN 10 * Milli ELSE risk_std]

\* mutant of FallbackResult: the insufficient-history deviation 15.0 in place of 10.0
FallbackResultDefaultDeviation(risk_category, iterations, now) ==
    [risk_category |-> risk_category, mean |-> 50 * Milli, std |-> 15 * Milli,
     percentiles |-> [p5 |-> 35 * Milli, p50 |-> 50 * Milli, p95 |-> 65 * Milli],
     iterations |-> iterations, calculated_at |-> now]

\* the result of the except branch of run_simulation
FallbackResult(risk_category, iterations, now) ==
    [risk_category |-> risk_category, mean |-> 50 * Milli, std |-> 10 * Milli,
     percentiles |-> [p5 |-> 35 * Milli, p50 |-> 50 * Milli, p95 |-> 65 * Milli],
     iterations |-> iterations, calculated_at |-> now]

\* mutant of StoreResult: the record is built but never added
StoreResultNotAdded(mc, result, now, commitOk) == mc

\* _store_result: an insert, or nothing when the commit fails (rolled back)
StoreResult(mc, result, now, commitOk) ==
    IF commitOk
    THEN Append(mc, [id |-> Len(mc) + 1, risk_category |-> result.risk_category,
                     mean |-> result.mean, std |-> result.std,
                     percentiles |-> result.percentiles,
                     iterations |-> result.iterations, calculated_at |-> now])
    ELSE mc

HistoryLimit == 30

\* run_simulation.  call.inp keeps the request.
\* draws: what np.random.normal returns (Count(draws) = iterations);
\* emptyRaises: whether this numpy raises on the percentile of an empty array
RunSimulation(risk_category, iterations, use_cached_data, readOk, draws, emptyRaises, commitOk) ==
    LET historical_scores ==
            IF use_cached_data
            THEN GetHistoricalScores(history, risk_category, HistoryLimit, readOk)
            ELSE <<>>
        params == SimulationParameters(historical_scores)
        raises == iterations < 0 \/ (iterations = 0 /\ emptyRaises)
        simulations == ClipRuns(draws)
        stats == Statistics(simulations)
        now2 == IF commitOk /\ ~raises THEN clock + 1 ELSE clock
        result == IF raises THEN FallbackResult(risk_category, iterations, clock)
                  ELSE [risk_category |-> risk_category, mean |-> stats.mean,
                        std |-> stats.std, percentiles |-> stats.percentiles,
                        iterations |-> iterations, calculated_at |-> clock]
    IN  /\ iterations >= 0 => Count(draws) = iterations
        /\ iterations < 0 => draws = <<>>
        /\ mcHistory' = IF raises THEN mcHistory
                        ELSE StoreResult(mcHistory, result, clock, commitOk)
        /\ clock' = now2
        /\ call' = [op |-> "simulate",
                    inp |-> <<[risk_category |-> risk_category,
                               iterations |-> iterations]>>,
                    commit |-> <<commitOk>>,
                    raised |-> FALSE, risk |-> <<>>, overall |-> 0,
                    sim |-> <<result>>, scen |-> NoScen,
                    info |-> [use_cached |-> use_cached_data, readOk |-> readOk,
                              scores |-> historical_scores, sampled |-> ~raises,
                              risk_mean |-> params.risk_mean,
                              risk_std |-> params.risk_std,
                              samples |-> simulations]]
        /\ steps' = steps + 1
        /\ UNCHANGED <<history, threads, cache>>

(***************************************************************************)
(* Scenario mode                                                           *)
(***************************************************************************)
ScenarioIterations == 5000

\* a scenario: a label and its params dict, whose keys may be absent
Scenario(label, mean, std) ==
    [label |-> label, hasMean |-> TRUE, hasStd |-> TRUE, mean |-> mean, std |-> std]

DefaultScenarios ==
    << Scenario("optimistic", 30 * Milli, 5 * Milli),
       Scenario("baseline", 50 * Milli, 10 * Milli),
       Scenario("pessimistic", 70 * Milli, 15 * Milli) >>

\* np.random.normal(params["mean"], params["std"], iterations) raises:
\* KeyError for an absent key, ValueError for a negative deviation
ScenarioRaises(params) == ~params.hasMean \/ ~params.hasStd \/ params.std < 0

\* what np.random.normal may return for these parameters
PossibleDraws(params, draws) ==
    /\ Count(draws) = ScenarioIterations
    /\ params.std = 0 => \A i \in 1..Len(draws) : draws[i].v = params.mean

\* mutant of ScenarioSampler: mean and deviation in each other's place
ScenarioSamplerSwapped(params) ==
    [mean |-> params.std, std |-> params.mean, size |-> ScenarioIterations]

\* the arguments of np.random.normal for a scenario
ScenarioSampler(params) ==
    [mean |-> params.mean, std |-> params.std, size |-> ScenarioIterations]

RECURSIVE ScenarioLoop(_, _)
\* the for loop of run_multiple_scenarios: the results and the sampler's calls, or
\* the first exception
ScenarioLoop(scenarios, draws) ==
    IF scenarios = <<>> THEN [exc |-> FALSE, results |-> <<>>, sampler |-> <<>>]
    ELSE IF ScenarioRaises(Head(scenarios))
    THEN [exc |-> TRUE, results |-> <<>>, sampler |-> <<>>]
    ELSE LET stats == Statistics(ClipRuns(Head(draws)))
             rest == ScenarioLoop(Tail(scenarios), Tail(draws))
         IN  IF rest.exc THEN rest
             ELSE [exc |-> FALSE,
                   results |-> <<[label |-> Head(scenarios).label,
                                  mean |-> stats.mean, std |-> stats.std,
                                  percentiles |-> stats.percentiles]>>
                               \o rest.results,
                   sampler |-> <<ScenarioSampler(Head(scenarios))>> \o rest.sampler]

\* run_multiple_scenarios.  given = FALSE is scenarios=None; draws[i] is the array
\* drawn for the i-th scenario.  There is no try block: an exception reaches the
\* caller.  call.inp keeps the request, the sampler's calls and what it returned
RunMultipleScenarios(risk_category, given, scenarios, draws) ==
    LET used == IF given THEN scenarios ELSE DefaultScenarios
        loop == ScenarioLoop(used, draws)
    IN  /\ Len(draws) = Len(used)
        /\ \A i \in 1..Len(used) :
               \/ ScenarioRaises(used[i]) /\ draws[i] = <<>>
               \/ ~ScenarioRaises(used[i]) /\ PossibleDraws(used[i], draws[i])
        /\ call' = [op |-> "scenarios",
                    inp |-> <<[risk_category |-> risk_category, given |-> given,
                               scenarios |-> scenarios, sampler |-> loop.sampler,
                               draws |-> draws]>>,
                    commit |-> <<>>,
                    raised |-> loop.exc, risk |-> <<>>, overall |-> 0,
                    sim |-> NoSim, scen |-> loop.results,
                    info |-> NoInfo]
        /\ steps' = steps + 1
        /\ UNCHANGED <<history, mcHistory, clock, threads, cache>>

(***************************************************************************)
(* Specifications                                                          *)
(***************************************************************************)
Categories == {"market", "supply_chain", "regulatory", "hr"}

\* a thread: where it stands, the answers it is run on, whether its commit will
\* succeed, what its formula gave and what it returned
IdleThread ==
    [pc |-> "idle", inp |-> <<>>, commitOk |-> TRUE, f |-> Raised,
     result |-> DefaultRisk("none", 0)]

\* no computation running; base is the RiskScore history when the threads started
NoThreads == [base |-> <<>>, t |-> [c \in Categories |-> IdleThread]]

\* ---- the signal cache: table risk_data_cache ----
\* the threads that run fetchers at the same time (a request on the event loop
\* and a background refresh)
Workers == {"w1", "w2"}

\* the database behind DATABASE_URL: SQLite by default, PostgreSQL by configuration
Engines == {"sqlite", "postgresql"}

\* (data_type, source, symbol) of the stock quote and of the unemployment rate
CacheKeys == {<<"market", "alpha_vantage", "SPY">>, <<"market", "fred", "UNRATE">>}

\* API responses to cache
CachePayloads == {"a", "b"}

\* the key columns of a row of risk_data_cache
RowKey(row) == <<row.data_type, row.source, row.symbol>>

\* the rows the filter on data_type, source and symbol selects
Matching(rows, key) == {row \in rows : RowKey(row) = key}

\* .first() of a query that selects nothing
NoEntry ==
    [id |-> 0, data_type |-> "", source |-> "", symbol |-> "", data |-> "",
     expires_at |-> 0]

\* a worker with no session open; an open session holds the position of
\* _cache_data, its arguments, the ids its DELETE selected and then deleted, and
\* the expiry time of the entry it is about to add
IdleSession ==
    [pc |-> "idle", key |-> <<>>, data |-> "", seen |-> {}, deleted |-> {},
     expires_at |-> 0]

\* no cache call has returned yet
NoCacheCall ==
    [op |-> "none", worker |-> "none", key |-> <<>>, data |-> "", ok |-> TRUE,
     found |-> FALSE, expires_at |-> 0, at |-> 0]

\* the empty table: committed rows, the next primary key, datetime.utcnow() in
\* hours, the holder of SQLite's write lock, the sessions, the last call that
\* returned and the number of calls started
NoCache ==
    [engine |-> "sqlite", rows |-> {}, nextId |-> 1, now |-> 0, lock |-> "none",
     tx |-> [w \in Workers |-> IdleSession], ret |-> NoCacheCall, ops |-> 0]

NoCall ==
    [op |-> "none", inp |-> <<>>, commit |-> <<>>, raised |-> FALSE, risk |-> <<>>,
     overall |-> 0, sim |-> NoSim, scen |-> NoScen, info |-> NoInfo]

Init ==
    /\ history = <<>>
    /\ mcHistory = <<>>
    /\ clock = 1
    /\ call = NoCall
    /\ steps = 0
    /\ threads = NoThreads
    /\ cache = NoCache

\* ---- the fetchers' answers the score aggregator is run on ----
\* quote changes: +8%, -0.123%, +30% (volatility capped), no change key, "N/A"
StockCases ==
    {NoData, FetchRaises, Data(<<Num(8000)>>), Data(<<Num(-123)>>),
     Data(<<Num(30000)>>), Data(<<Missing>>), Data(<<Bad>>)}

\* GDP observations, newest first: one only, -1%, +1%, previous 0, "."
GdpCases ==
    {NoData, Data(<<Num(20000)>>), Data(<<Num(19800), Num(20000)>>),
     Data(<<Num(20200), Num(20000), Num(19000)>>), Data(<<Num(100), Num(0)>>),
     Data(<<Bad, Num(20000)>>)}

\* unemployment observations: none in the list, ".", 4.0, 30.0, -30.0
UnrateCases ==
    {NoData, Data(<<>>), Data(<<Bad>>), Data(<<Num(4000)>>), Data(<<Num(30000)>>),
     Data(<<Num(-30000)>>)}

Articles(n) == [i \in 1..n |-> Num(i)]

NewsCases == {NoData, FetchRaises, Data(Articles(0)), Data(Articles(3)),
              Data(Articles(7)), Data(Articles(20))}

\* revenue facts, oldest first; "nounits" and "nousd" are answers without that key
SecCases ==
    {NoData, FetchRaises, [st |-> "nounits", vals |-> <<>>],
     [st |-> "nousd", vals |-> <<>>], Data(<<Num(1)>>), Data(<<Num(1), Num(3)>>),
     Data(<<Num(9), Num(2), Num(2), Num(2), Num(2)>>), Data(<<Num(0), Num(0)>>),
     Data(<<Num(1), Bad>>), Data(<<Num(1), Missing, Num(4)>>),
     Data(<<Num(-1), Num(1), Num(3), Num(-1)>>)}

\* unemployment rates, newest first; "noresults" and "noseries" lack that part
BlsCases ==
    {NoData, FetchRaises, [st |-> "noresults", vals |-> <<>>],
     [st |-> "noseries", vals |-> <<>>], Data(<<Rate(4000)>>),
     Data(<<Rate(4150), Rate(4000)>>), Data(<<Rate(3900), Rate(4000)>>),
     Data(<<Rate(4000), Rate(4000)>>), Data(<<Rate(9500), Rate(4000)>>),
     Data(<<Rate(4123), Rate(4000), Rate(3000)>>), Data(<<Bad, Rate(4000)>>),
     Data(<<Rate(4000), Bad>>), Data(<<Num(41234), Num(40000)>>),
     Data(<<Missing, Rate(4000)>>), Data(<<Rate(4000), Missing>>),
     Data(<<Rate(14000), Rate(4000)>>)}

AllOk == <<TRUE, TRUE, TRUE, TRUE>>

\* the answers calculate_all_risks is run on
AllCases ==
    {<<stock, NoData, unrate, news, sec, bls>> :
        stock \in {NoData, Data(<<Num(-123)>>)},
        unrate \in {NoData, Data(<<>>), Data(<<Num(30000)>>), Data(<<Num(-30000)>>)},
        news \in {NoData, Data(Articles(3))},
        sec \in {Data(<<Num(1), Num(3)>>), Data(<<Num(-1), Num(1), Num(3), Num(-1)>>)},
        bls \in {FetchRaises, Data(<<Rate(4123), Rate(4000)>>),
                 Data(<<Rate(9500), Rate(4000)>>)}}

MaxScoreSteps == 1

NextScore ==
    /\ steps < MaxScoreSteps
    /\ \/ \E stock \in StockCases, gdp \in GdpCases, unrate \in UnrateCases :
              CalculateMarketRisk(stock, gdp, unrate, TRUE)
       \/ \E news \in NewsCases, commitOk \in BOOLEAN :
              CalculateSupplyChainRisk(news, commitOk)
       \/ \E sec \in SecCases, commitOk \in BOOLEAN :
              CalculateRegulatoryRisk(sec, commitOk)
       \/ \E bls \in BlsCases, commitOk \in BOOLEAN :
              CalculateHrRisk(bls, commitOk)
       \/ \E c \in AllCases, commit \in {AllOk, <<FALSE, TRUE, TRUE, FALSE>>} :
              CalculateAllRisks(c[1], c[2], c[3], c[4], c[5], c[6], commit)

\* the score aggregator on every shape of the fetchers' answers
SpecScore == Init /\ [][NextScore]_vars

\* ---- the whole core on a few answers: both histories grow over several calls ----
Run(v, n) == [v |-> v, n |-> n]

\* market answers: nothing available, +8% alone, +8% with an empty unemployment list
MarketCases ==
    {<<NoData, NoData, NoData>>, <<Data(<<Num(8000)>>), NoData, NoData>>,
     <<Data(<<Num(8000)>>), NoData, Data(<<>>)>>}

\* BLS answers and the commit's outcome: scores 50.0, 52.0, 51.99, the default
HrCases ==
    {<<NoData, TRUE>>, <<Data(<<Rate(4200), Rate(4000)>>), TRUE>>,
     <<Data(<<Rate(4199), Rate(4000)>>), TRUE>>,
     <<Data(<<Rate(4200), Rate(4000)>>), FALSE>>, <<Data(<<Bad, Rate(4000)>>), TRUE>>}

\* <<risk_category, iterations, use_cached_data, readOk, draws, emptyRaises, commitOk>>
SimCases ==
    LET draws == <<Run(-20 * Milli, 1), Run(130 * Milli, 1)>>
    IN  {<<"hr", 2, TRUE, TRUE, draws, FALSE, TRUE>>,
         <<"hr", 2, FALSE, TRUE, draws, FALSE, TRUE>>,
         <<"hr", 2, TRUE, FALSE, draws, FALSE, TRUE>>,
         <<"hr", 2, TRUE, TRUE, draws, FALSE, FALSE>>,
         <<"hr", -1, TRUE, TRUE, <<>>, FALSE, TRUE>>,
         <<"market", 2, TRUE, TRUE, draws, FALSE, TRUE>>,
         <<"market", 2, FALSE, TRUE, draws, FALSE, TRUE>>}

\* <<given, scenarios, draws>>: the default set, and a set whose label lacks "std"
ScenarioCases ==
    {<<FALSE, <<>>,
       <<<<Run(25 * Milli, ScenarioIterations)>>,
         <<Run(-5 * Milli, 1000), Run(55 * Milli, ScenarioIterations - 1000)>>,
         <<Run(120 * Milli, 300), Run(70 * Milli, ScenarioIterations - 300)>>>>>>,
     <<TRUE,
       <<Scenario("flat", 40 * Milli, 0),
         [label |-> "broken", hasMean |-> TRUE, hasStd |-> FALSE,
          mean |-> 50 * Milli, std |-> 0]>>,
       <<<<Run(40 * Milli, ScenarioIterations)>>, <<>>>>>>}

MaxSteps == 3

Next ==
    /\ steps < MaxSteps
    /\ \/ \E c \in MarketCases : CalculateMarketRisk(c[1], c[2], c[3], TRUE)
       \/ CalculateSupplyChainRisk(Data(Articles(2)), TRUE)
       \/ CalculateRegulatoryRisk(Data(<<Num(1), Num(3)>>), TRUE)
       \/ \E c \in HrCases : CalculateHrRisk(c[1], c[2])
       \/ CalculateAllRisks(Data(<<Num(-123)>>), NoData, NoData, Data(Articles(3)),
                            NoData, Data(<<Rate(4123), Rate(4000)>>),
                            <<TRUE, FALSE, TRUE, TRUE>>)
       \/ \E c \in SimCases : RunSimulation(c[1], c[2], c[3], c[4], c[5], c[6], c[7])
       \/ \E risk_category \in {"hr"}, c \in ScenarioCases :
              RunMultipleScenarios(risk_category, c[1], c[2], c[3])

Spec == Init /\ [][Next]_vars

\* ---- long histories: the query's limit and its category filter ----
HistSlack == 1
MaxHistSteps == 2

\* the row the k-th of a run of successful computations inserts: an hr score
\* 50.0 .. 56.0 or, when mixed, every fourth time a market score 50.0 .. 54.0
PrefilledRow(k, mixed) ==
    LET category == IF mixed /\ k % 4 = 0 THEN "market" ELSE "hr"
        f == IF category = "market"
             THEN MarketFormula(Data(<<Num((k % 5) * 2 * Milli)>>), NoData, NoData)
             ELSE HrFormula(Data(<<Rate(4000 + (k % 7) * 100), Rate(4000)>>))
    IN  StoreRiskScore(<<>>, category, Clamp(f.score), f.raw, k, TRUE)[1]

\* the history after k successful computations
Prefilled(k, mixed) == [i \in 1..k |-> [PrefilledRow(i, mixed) EXCEPT !.id = i]]

\* lengths around the limit (around 4/3 of it when mixed), and the shortest ones
PrefilledLengths(mixed) ==
    LET around == IF mixed THEN HistoryLimit + HistoryLimit \div 3 ELSE HistoryLimit
    IN  ((around - HistSlack)..(around + HistSlack)) \cup (0..HistSlack)

InitHist ==
    \E mixed \in BOOLEAN :
        \E k \in PrefilledLengths(mixed) :
            /\ history = Prefilled(k, mixed)
            /\ mcHistory = <<>>
            /\ clock = k + 1
            /\ call = NoCall
            /\ steps = 0
            /\ threads = NoThreads
            /\ cache = NoCache

NextHist ==
    /\ steps < MaxHistSteps
    /\ \/ CalculateMarketRisk(Data(<<Num(8000)>>), NoData, NoData, TRUE)
       \/ \E commitOk \in BOOLEAN :
              CalculateHrRisk(Data(<<Rate(4200), Rate(4000)>>), commitOk)
       \/ \E risk_category \in {"hr", "market"}, readOk \in BOOLEAN :
              RunSimulation(risk_category, 1, TRUE, readOk, <<Run(50 * Milli, 1)>>,
                            FALSE, TRUE)

SpecHist == InitHist /\ [][NextHist]_vars

\* ---- the simulator on every kind of request: unknown category, iteration counts
\* ---- below 1, failing reads and commits, samples outside [0,100] ----
MaxSimHistory == 3
MaxSimSteps == 1

\* requested iteration counts: negative, none, one, several
SimIterations == {-1, 0, 1, 3}

\* arrays np.random.normal may return for an iteration count
SimDraws(iterations) ==
    IF iterations <= 0 THEN {<<>>}
    ELSE IF iterations = 1
    THEN {<<Run(-20 * Milli, 1)>>, <<Run(42500, 1)>>, <<Run(130 * Milli, 1)>>}
    ELSE {<<Run(10 * Milli, iterations)>>,
          <<Run(130 * Milli, 1), Run(-20 * Milli, iterations - 1)>>,
          <<Run(99999, 1), Run(1, 1), Run(50 * Milli, iterations - 2)>>,
          <<Run(-1, iterations - 1), Run(100001, 1)>>}

\* <<given, scenarios, draws>>: the default set; no label; constant samples outside
\* [0,100]; a negative deviation; a label without "mean"
ScenarioSimCases ==
    {<<FALSE, <<>>,
       <<<<Run(31 * Milli, ScenarioIterations)>>,
         <<Run(-5 * Milli, 300), Run(55 * Milli, ScenarioIterations - 300)>>,
         <<Run(120 * Milli, 2600), Run(70 * Milli, ScenarioIterations - 2600)>>>>>>,
     <<TRUE, <<>>, <<>>>>,
     <<TRUE,
       <<Scenario("high", 120 * Milli, 0), Scenario("low", -5 * Milli, 0)>>,
       <<<<Run(120 * Milli, ScenarioIterations)>>,
         <<Run(-5 * Milli, ScenarioIterations)>>>>>>,
     <<TRUE,
       <<Scenario("calm", 40 * Milli, 2 * Milli), Scenario("negative", 50 * Milli, -1)>>,
       <<<<Run(38 * Milli, 2500), Run(42 * Milli, 2500)>>, <<>>>>>>,
     <<TRUE,
       <<[label |-> "nomean", hasMean |-> FALSE, hasStd |-> TRUE,
          mean |-> 0, std |-> 5 * Milli]>>,
       <<<<>>>>>>}

InitSim ==
    \E k \in 0..MaxSimHistory :
        /\ history = Prefilled(k, FALSE)
        /\ mcHistory = <<>>
        /\ clock = k + 1
        /\ call = NoCall
        /\ steps = 0
        /\ threads = NoThreads
        /\ cache = NoCache

NextSim ==
    /\ steps < MaxSimSteps
    /\ \/ \E commitOk \in BOOLEAN :
              CalculateHrRisk(Data(<<Rate(4900), Rate(4000)>>), commitOk)
       \/ \E risk_category \in {"hr", "bogus"}, iterations \in SimIterations,
             use_cached_data \in BOOLEAN, readOk \in BOOLEAN,
             emptyRaises \in BOOLEAN, commitOk \in BOOLEAN :
              \E draws \in SimDraws(iterations) :
                  RunSimulation(risk_category, iterations, use_cached_data, readOk,
                                draws, emptyRaises, commitOk)
       \/ \E risk_category \in {"hr", "bogus"}, c \in ScenarioSimCases :
              RunMultipleScenarios(risk_category, c[1], c[2], c[3])

SpecSim == InitSim /\ [][NextSim]_vars

\* ---- the four category computations as parallel threads, each with its own
\* ---- database session: compute from the fetched answers, then insert and commit
MaxParSteps == 1
MaxParHistory == 1

CategoryOrder == <<"market", "supply_chain", "regulatory", "hr">>

\* the answers of the six-tuple c that category's computation reads
ThreadAnswers(category, c) ==
    IF category = "market" THEN <<c[1], c[2], c[3]>>
    ELSE IF category = "supply_chain" THEN <<c[4]>>
    ELSE IF category = "regulatory" THEN <<c[5]>>
    ELSE <<c[6]>>

\* the try block of that category's method up to the clamp
ThreadFormula(category, inp) ==
    IF category = "market" THEN MarketFormula(inp[1], inp[2], inp[3])
    ELSE IF category = "supply_chain" THEN SupplyChainFormula(inp[1])
    ELSE IF category = "regulatory" THEN RegulatoryFormula(inp[1])
    ELSE HrFormula(inp[1])

\* mutant of SessionTable: the insert applies to the table as it was at the start
SessionTableSnapshot(snapshot, current) == snapshot

\* the table a session's INSERT applies to: the database's current one
SessionTable(snapshot, current) == current

\* answers of the six sources: a clamped market score, a raising BLS fetch, an
\* unemployment list without observations
ParCases ==
    {<<Data(<<Num(-123)>>), NoData, Data(<<Num(30000)>>), Data(Articles(3)),
       Data(<<Num(1), Num(3)>>), Data(<<Rate(4123), Rate(4000)>>)>>,
     <<NoData, NoData, NoData, NoData, NoData, FetchRaises>>,
     <<Data(<<Num(8000)>>), NoData, Data(<<>>), Data(Articles(20)),
       Data(<<Num(1), Bad>>), Data(<<Rate(9500), Rate(4000)>>)>>}

\* the four computations are started together
ParFork(c, commit) ==
    /\ steps < MaxParSteps
    /\ \A category \in Categories : threads.t[category].pc = "idle"
    /\ threads' = [base |-> history,
                   t |-> [category \in Categories |->
                            [pc |-> "start", inp |-> ThreadAnswers(category, c),
                             commitOk |-> commit[category], f |-> Raised,
                             result |-> DefaultRisk("none", 0)]]]
    /\ steps' = steps + 1
    /\ UNCHANGED <<history, mcHistory, clock, call, cache>>

\* a thread fetches its signals and evaluates its formula
ParCompute(category) ==
    /\ threads.t[category].pc = "start"
    /\ threads' = [threads EXCEPT
                     !.t[category].pc = "computed",
                     !.t[category].f = ThreadFormula(category, threads.t[category].inp)]
    /\ UNCHANGED <<history, mcHistory, clock, call, steps, cache>>

\* a thread clamps, stores in its own session and returns (or takes its except branch)
ParStore(category) ==
    LET th == threads.t[category]
        o == RiskOutcome(category, th.f, SessionTable(threads.base, history), clock,
                         th.commitOk)
    IN  /\ th.pc = "computed"
        /\ history' = o.history
        /\ clock' = o.now
        /\ threads' = [threads EXCEPT !.t[category].pc = "done",
                                      !.t[category].result = o.result]
        /\ UNCHANGED <<mcHistory, call, steps, cache>>

\* all four have returned: the weighted sum of calculate_all_risks
ParJoin ==
    LET result(i) == threads.t[CategoryOrder[i]].result
    IN  /\ \A category \in Categories : threads.t[category].pc = "done"
        /\ call' = RiskCall("all",
                            threads.t["market"].inp \o threads.t["supply_chain"].inp
                                \o threads.t["regulatory"].inp \o threads.t["hr"].inp,
                            [i \in 1..4 |-> threads.t[CategoryOrder[i]].commitOk],
                            [i \in 1..4 |-> result(i)],
                            Overall(result(1).score, result(2).score,
                                    result(3).score, result(4).score))
        /\ threads' = [threads EXCEPT !.t = [c \in Categories |-> IdleThread]]
        /\ UNCHANGED <<history, mcHistory, clock, steps, cache>>

InitPar ==
    \E k \in 0..MaxParHistory :
        /\ history = Prefilled(4 * k, TRUE)
        /\ mcHistory = <<>>
        /\ clock = 4 * k + 1
        /\ call = NoCall
        /\ steps = 0
        /\ threads = NoThreads
        /\ cache = NoCache

NextPar ==
    \/ \E c \in ParCases :
           \E commit \in {[category \in Categories |-> TRUE],
                          [category \in Categories |-> category # "supply_chain"]} :
               ParFork(c, commit)
    \/ \E category \in Categories : ParCompute(category)
    \/ \E category \in Categories : ParStore(category)
    \/ ParJoin

SpecPar == InitPar /\ [][NextPar]_vars

(***************************************************************************)
(* The signal cache (data_fetchers.py): _cache_data and _get_cached_data   *)
(* run by two workers, one database statement per step.  A DELETE runs as  *)
(* soon as the query is executed; the INSERT of db.add is flushed by       *)
(* db.commit().  SQLite lets one transaction write at a time; PostgreSQL   *)
(* (READ COMMITTED) lets transactions write side by side and makes a       *)
(* DELETE wait only for rows another transaction has already deleted.      *)
(***************************************************************************)
MaxCacheOps == 3
MaxCacheClock == 1

\* hours an entry stays valid (24 unless the environment says otherwise)
CACHE_EXPIRY_HOURS == 1

\* SQLite: another session holds the write lock
WriteLocked(w) == cache.engine = "sqlite" /\ cache.lock \notin {"none", w}

\* PostgreSQL: a row selected by w's DELETE is deleted by a transaction still open
RowLocked(w) ==
    \E o \in Workers \ {w} :
        cache.tx[o].pc = "commit" /\ cache.tx[o].deleted \cap cache.tx[w].seen # {}

\* _cache_data, db = SessionLocal()
CacheDataOpen(w, key, data) ==
    /\ cache.tx[w].pc = "idle"
    /\ cache.ops < MaxCacheOps
    /\ cache' = [cache EXCEPT
                   !.ops = @ + 1,
                   !.tx[w] = [IdleSession EXCEPT !.pc = "delete", !.key = key,
                                                 !.data = data]]
    /\ UNCHANGED <<history, mcHistory, clock, call, steps, threads>>

\* _cache_data, the DELETE of the entries of the key
CacheDataDelete(w) ==
    LET seen == {row.id : row \in Matching(cache.rows, cache.tx[w].key)}
    IN  /\ cache.tx[w].pc = "delete"
        /\ ~WriteLocked(w)
        /\ cache' = IF cache.engine = "sqlite"
                    THEN [cache EXCEPT
                            !.lock = w,
                            !.tx[w].pc = "commit",
                            !.tx[w].seen = seen,
                            !.tx[w].deleted = seen,
                            !.tx[w].expires_at = cache.now + CACHE_EXPIRY_HOURS]
                    ELSE [cache EXCEPT !.tx[w].pc = "rowlock", !.tx[w].seen = seen]
        /\ UNCHANGED <<history, mcHistory, clock, call, steps, threads>>

\* PostgreSQL: the DELETE takes the rows it selected once no open transaction
\* holds them; a row deleted and committed meanwhile is skipped
CacheDataRowLock(w) ==
    /\ cache.tx[w].pc = "rowlock"
    /\ ~RowLocked(w)
    /\ cache' = [cache EXCEPT
                   !.tx[w].pc = "commit",
                   !.tx[w].deleted = cache.tx[w].seen \cap {row.id : row \in cache.rows},
                   !.tx[w].expires_at = cache.now + CACHE_EXPIRY_HOURS]
    /\ UNCHANGED <<history, mcHistory, clock, call, steps, threads>>

\* SQLite: the DELETE gives up waiting for the write lock ("database is
\* locked"); except: rollback, finally: close
CacheDataLocked(w) ==
    /\ cache.tx[w].pc = "delete"
    /\ WriteLocked(w)
    /\ cache' = [cache EXCEPT
                   !.tx[w] = IdleSession,
                   !.ret = [NoCacheCall EXCEPT !.op = "cache", !.worker = w,
                                               !.key = cache.tx[w].key,
                                               !.data = cache.tx[w].data,
                                               !.ok = FALSE, !.at = cache.now]]
    /\ UNCHANGED <<history, mcHistory, clock, call, steps, threads>>

\* the entry _cache_data adds
CacheEntry(id, key, data, expires_at) ==
    [id |-> id, data_type |-> key[1], source |-> key[2], symbol |-> key[3],
     data |-> data, expires_at |-> expires_at]

\* _cache_data, db.add and db.commit(): the INSERT and the COMMIT, or the
\* rollback when the commit fails
CacheDataCommit(w, commitOk) ==
    LET s == cache.tx[w]
        entry == CacheEntry(cache.nextId, s.key, s.data, s.expires_at)
    IN  /\ s.pc = "commit"
        /\ cache' = [cache EXCEPT
                       !.rows = IF commitOk
                                THEN {row \in @ : row.id \notin s.deleted} \cup {entry}
                                ELSE @,
                       !.nextId = IF commitOk THEN @ + 1 ELSE @,
                       !.lock = IF @ = w THEN "none" ELSE @,
                       !.tx[w] = IdleSession,
                       !.ret = [NoCacheCall EXCEPT !.op = "cache", !.worker = w,
                                                   !.key = s.key, !.data = s.data,
                                                   !.ok = commitOk,
                                                   !.expires_at = s.expires_at,
                                                   !.at = cache.now]]
        /\ UNCHANGED <<history, mcHistory, clock, call, steps, threads>>

\* _get_cached_data: one SELECT over the committed rows; .first() is any of the
\* selected rows; a failing query leaves the method (there is no except)
GetCachedData(w, key, readOk) ==
    LET fresh == {row \in Matching(cache.rows, key) : row.expires_at > cache.now}
    IN  /\ cache.tx[w].pc = "idle"
        /\ cache.ops < MaxCacheOps
        /\ \E cache_entry \in (IF fresh = {} \/ ~readOk THEN {NoEntry} ELSE fresh) :
               cache' = [cache EXCEPT
                           !.ops = @ + 1,
                           !.ret = [op |-> "get", worker |-> w, key |-> key,
                                    data |-> cache_entry.data, ok |-> readOk,
                                    found |-> cache_entry # NoEntry,
                                    expires_at |-> cache_entry.expires_at,
                                    at |-> cache.now]]
        /\ UNCHANGED <<history, mcHistory, clock, call, steps, threads>>

\* an hour passes
CacheTick ==
    /\ cache.now < MaxCacheClock
    /\ cache' = [cache EXCEPT !.now = @ + 1]
    /\ UNCHANGED <<history, mcHistory, clock, call, steps, threads>>

InitCache ==
    \E engine \in Engines :
        /\ history = <<>>
        /\ mcHistory = <<>>
        /\ clock = 1
        /\ call = NoCall
        /\ steps = 0
        /\ threads = NoThreads
        /\ cache = [NoCache EXCEPT !.engine = engine]

NextCache ==
    \/ \E w \in Workers, key \in CacheKeys, data \in CachePayloads :
           CacheDataOpen(w, key, data)
    \/ \E w \in Workers : CacheDataDelete(w)
    \/ \E w \in Workers : CacheDataRowLock(w)
    \/ \E w \in Workers : CacheDataLocked(w)
    \/ \E w \in Workers, commitOk \in BOOLEAN : CacheDataCommit(w, commitOk)
    \/ \E w \in Workers, key \in CacheKeys, readOk \in BOOLEAN :
           GetCachedData(w, key, readOk)
    \/ CacheTick

SpecCache == InitCache /\ [][NextCache]_vars

(***************************************************************************)
(* Properties of the score aggregator (SpecScore)                          *)
(***************************************************************************)
IsRiskCall == call.op \in Categories \cup {"all"}

\* the category of the i-th result of call c
CategoryIn(c, i) ==
    IF c.op = "all" THEN <<"market", "supply_chain", "regulatory", "hr">>[i]
    ELSE c.op

\* what the formula of the i-th result of call c yields on the call's answers
FormulaIn(c, i) ==
    LET category == CategoryIn(c, i)
        at == IF c.op # "all" THEN 1
              ELSE IF category = "market" THEN 1
              ELSE IF category = "supply_chain" THEN 4
              ELSE IF category = "regulatory" THEN 5 ELSE 6
    IN  IF category = "market"
        THEN MarketFormula(c.inp[at], c.inp[at + 1], c.inp[at + 2])
        ELSE IF category = "supply_chain" THEN SupplyChainFormula(c.inp[at])
        ELSE IF category = "regulatory" THEN RegulatoryFormula(c.inp[at])
        ELSE HrFormula(c.inp[at])

CategoryOf(i) == CategoryIn(call, i)
FormulaOfCall(i) == FormulaIn(call, i)

RawHas(raw, key) == \E i \in 1..Len(raw) : raw[i][1] = key
RawGet(raw, key) == raw[CHOOSE i \in 1..Len(raw) : raw[i][1] = key][2]

\* C1: every score a category computation returns lies in [0,100], and so does the
\* score of every RiskScore record of the history.
C1_ScoreInRange ==
    /\ \A i \in 1..Len(call.risk) :
           call.risk[i].score >= 0 /\ call.risk[i].score <= 100 * Milli
    /\ \A i \in 1..Len(history) :
           history[i].score >= 0 /\ history[i].score <= 100 * Milli

\* C1 witness: one calculate_all_risks whose market formula went below 0 and whose
\* regulatory formula went above 100, both stored clamped.
C1_Witness ==
    /\ call.op = "all"
    /\ ~FormulaOfCall(1).exc /\ FormulaOfCall(1).score < 0
    /\ ~FormulaOfCall(3).exc /\ FormulaOfCall(3).score > 100 * Milli
    /\ \E i \in 1..Len(history) :
           history[i].risk_category = "market" /\ history[i].score = 0
    /\ \E i \in 1..Len(history) :
           history[i].risk_category = "regulatory" /\ history[i].score = 100 * Milli

\* C2: when a fetch or the formula raises inside a category computation, nothing
\* reaches the caller and the result is the default record of that category: score
\* 50.0 and raw data holding only the error marker.
C2_RaiseGivesDefault ==
    IsRiskCall =>
        \A i \in 1..Len(call.risk) :
            FormulaOfCall(i).exc =>
                /\ ~call.raised
                /\ call.risk[i].category = CategoryOf(i)
                /\ call.risk[i].score = 50 * Milli
                /\ call.risk[i].raw_data = ErrorMarker

\* C2 witness: calculate_market_risk whose stock fetch raised returned the default.
C2_Witness ==
    /\ call.op = "market"
    /\ call.inp[1].st = "raise"
    /\ call.risk[1].score = 50 * Milli
    /\ call.risk[1].raw_data = ErrorMarker

\* a market answer with a value float() rejects, or with no observation to read
Malformed(source) ==
    /\ source.st = "data"
    /\ \/ source.vals = <<>>
       \/ \E i \in 1..Len(source.vals) : source.vals[i].kind = "bad"

\* the answer with a malformed signal left out
Omit(source) == IF Malformed(source) THEN NoData ELSE source

\* C3: in calculate_market_risk a malformed signal drops only its own term: the
\* result is the formula over the other signals, never the default error record.
C3_MalformedSignalOmitted ==
    (call.op = "market" /\ \A i \in 1..3 : call.inp[i].st # "raise") =>
        LET f == MarketFormula(Omit(call.inp[1]), Omit(call.inp[2]), Omit(call.inp[3]))
        IN  /\ call.risk[1].raw_data = f.raw
            /\ call.risk[1].score = Round2(Clamp(f.score))

\* every market answer is absent or carries the numbers the formula reads
MarketWellFormed ==
    /\ \A i \in 1..3 : call.inp[i].st \in {"none", "data"} /\ ~Malformed(call.inp[i])
    /\ call.inp[1].st = "data" => call.inp[1].vals[1].kind = "num"

\* the score the market rule yields for the signals named in raw
MarketRule(raw) ==
    LET s0 == 50 * Milli
        s1 == IF RawHas(raw, "stock_change")
              THEN LET v == 50 * Milli + 2 * Abs(RawGet(raw, "stock_change"))
                   IN  (s0 + (IF v > 100 * Milli THEN 100 * Milli ELSE v)) \div 2
              ELSE s0
        s2 == IF RawHas(raw, "gdp_growth") /\ RawGet(raw, "gdp_growth") < 0
              THEN s1 + 5 * Abs(RawGet(raw, "gdp_growth"))
              ELSE s1
        s3 == IF RawHas(raw, "unemployment")
              THEN s2 + 2 * RawGet(raw, "unemployment")
              ELSE s2
    IN  IF s3 < 0 THEN 0 ELSE IF s3 > 100 * Milli THEN 100 * Milli ELSE s3

\* the signals the result names are exactly the available ones, with their values
MarketSignalsNamed(raw) ==
    /\ RawHas(raw, "stock_change") <=> call.inp[1].st = "data"
    /\ RawHas(raw, "stock_change") =>
           RawGet(raw, "stock_change") = call.inp[1].vals[1].v
    /\ RawHas(raw, "gdp_growth") <=>
           /\ call.inp[2].st = "data"
           /\ Len(call.inp[2].vals) >= 2
           /\ call.inp[2].vals[2].v > 0
    /\ RawHas(raw, "unemployment") <=> call.inp[3].st = "data"
    /\ RawHas(raw, "unemployment") =>
           RawGet(raw, "unemployment") = call.inp[3].vals[1].v

\* C4 (as claimed): for every combination of available and absent market signals
\* calculate_market_risk returns exactly clamp(s, 0, 100) of the market rule.
C4_MarketExact ==
    (call.op = "market" /\ MarketWellFormed) =>
        /\ MarketSignalsNamed(call.risk[1].raw_data)
        /\ call.risk[1].score = MarketRule(call.risk[1].raw_data)

\* C4 (amended): it returns clamp(s, 0, 100) rounded to two decimals (a multiple of
\* 0.01 within 0.005 of it); a stock change of +8% alone gives exactly 58.0.
C4_MarketRounded ==
    (call.op = "market" /\ MarketWellFormed) =>
        /\ MarketSignalsNamed(call.risk[1].raw_data)
        /\ call.risk[1].score % 10 = 0
        /\ Abs(call.risk[1].score - MarketRule(call.risk[1].raw_data)) <= 5
        /\ call.inp = <<Data(<<Num(8 * Milli)>>), NoData, NoData>> =>
               call.risk[1].score = 58 * Milli

\* C4 witness: all three signals available, growth negative, and a sum that has a
\* third decimal.
C4_Witness ==
    /\ call.op = "market" /\ MarketWellFormed
    /\ \A i \in 1..3 : call.inp[i].st = "data"
    /\ RawHas(call.risk[1].raw_data, "gdp_growth")
    /\ RawGet(call.risk[1].raw_data, "gdp_growth") < 0
    /\ MarketRule(call.risk[1].raw_data) % 10 # 0
    /\ call.risk[1].score # MarketRule(call.risk[1].raw_data)

\* 0.30*market + 0.25*supply_chain + 0.25*regulatory + 0.20*hr of the returned
\* sub-scores, in millionths
ReturnedWeightedSum ==
    300 * call.risk[1].score + 250 * call.risk[2].score
        + 250 * call.risk[3].score + 200 * call.risk[4].score

\* C5 (as claimed): overall_risk equals the weighted sum of the four returned
\* sub-scores and lies in [0,100].
C5_OverallExact ==
    call.op = "all" =>
        /\ call.overall * Milli = ReturnedWeightedSum
        /\ call.overall >= 0 /\ call.overall <= 100 * Milli

\* C5 (amended): overall_risk is that weighted sum rounded to two decimals (a
\* multiple of 0.01 within 0.005 of it) and lies in [0,100].
C5_OverallRounded ==
    call.op = "all" =>
        /\ call.overall % 10 = 0
        /\ Abs(call.overall * Milli - ReturnedWeightedSum) <= 5 * Milli
        /\ call.overall >= 0 /\ call.overall <= 100 * Milli

\* C5 witness: a weighted sum with more than two decimals, one sub-score a default.
C5_Witness ==
    /\ call.op = "all"
    /\ ReturnedWeightedSum % (10 * Milli) # 0
    /\ call.risk[4].raw_data = ErrorMarker
    /\ call.risk[1].raw_data # ErrorMarker

(***************************************************************************)
(* Properties of the two histories (Spec)                                  *)
(***************************************************************************)
IsPrefix(a, b) == Len(a) <= Len(b) /\ SubSeq(b, 1, Len(a)) = a

\* the results of call c that are formula results (and, if committed, were committed)
FormulaResults(c, committed) ==
    LET Counts(i) == c.risk[i].raw_data # ErrorMarker /\ (committed => c.commit[i])
    IN  SelectSeq([i \in 1..Len(c.risk) |-> i], Counts)

\* this step appended one row per formula result of the new call (per committed
\* one, if committed), holding its category, the clamped formula score and its raw
\* signals, and nothing else
AppendedFor(committed) ==
    LET results == FormulaResults(call', committed)
    IN  /\ Len(history') = Len(history) + Len(results)
        /\ IsPrefix(history, history')
        /\ \A j \in 1..Len(results) :
               LET row == history'[Len(history) + j]
                   i == results[j]
               IN  /\ row.risk_category = CategoryIn(call', i)
                   /\ row.raw_data = call'.risk[i].raw_data
                   /\ row.score = Clamp(FormulaIn(call', i).score)
                   /\ Round2(row.score) = call'.risk[i].score

IsRiskStep == call'.op \in Categories \cup {"all"}

\* C6 (as claimed): every category computation that returns a formula result has
\* appended exactly one RiskScore record of its category, with the clamped score
\* and the raw signals.
C6_FormulaResultAppended == [][IsRiskStep => AppendedFor(FALSE)]_vars

\* C6 (amended): it has appended exactly that record when the commit succeeded, and
\* none when the commit failed.
C6_CommittedResultAppended == [][IsRiskStep => AppendedFor(TRUE)]_vars

\* C6 witness: an hr formula result whose record was appended to a history that
\* already held records.
C6_Witness ==
    /\ call.op = "hr" /\ call.commit[1]
    /\ call.risk[1].raw_data # ErrorMarker
    /\ Len(history) >= 3
    /\ history[Len(history)].risk_category = "hr"
    /\ history[Len(history)].raw_data = call.risk[1].raw_data

\* C7: over any computations, simulations and scenario runs both histories only
\* grow: each step leaves every existing record in place and unchanged.
C7_HistoriesOnlyGrow ==
    [][IsPrefix(history, history') /\ IsPrefix(mcHistory, mcHistory')]_vars

\* C7 witness: a simulation stored after both histories have grown, the RiskScore
\* history holding two records of one category.
C7_Witness ==
    /\ call.op = "simulate"
    /\ Len(mcHistory) >= 1
    /\ \E i, j \in 1..Len(history) :
           i < j /\ history[i].risk_category = history[j].risk_category

(***************************************************************************)
(* Properties of run_simulation's parameters (Spec)                        *)
(***************************************************************************)
IsSampled == call.op = "simulate" /\ call.info.sampled

RowsOf(risk_category) ==
    {i \in 1..Len(history) : history[i].risk_category = risk_category}

\* how many historical scores the last simulation had available
Available ==
    IF call.info.use_cached /\ call.info.readOk
    THEN LET n == Cardinality(RowsOf(call.sim[1].risk_category))
         IN  IF n > HistoryLimit THEN HistoryLimit ELSE n
    ELSE 0

\* n^2 times the variance of xs, taken about the first score
ScaledVariance(xs) ==
    LET ys == [i \in 1..Len(xs) |-> xs[i] - xs[1]]
    IN  Len(xs) * SeqSumSq(ys) - SeqSum(ys) * SeqSum(ys)

\* C8: with fewer than 2 historical scores available (always so when
\* use_cached_data is false) the samples are drawn with mean 50.0 and deviation
\* 15.0; with 2 or more, with the mean of those scores and their population
\* deviation (to a thousandth) or the 10.0 that replaces one below 1.0.
C8_Parameters ==
    IsSampled =>
        LET scores == call.info.scores
            n == Len(scores)
            mean == call.info.risk_mean
            std == call.info.risk_std
        IN  /\ ~call.info.use_cached => Available = 0
            /\ Available < 2 => mean = 50 * Milli /\ std = 15 * Milli
            /\ Available >= 2 =>
                   /\ n = Available
                   /\ 2 * Abs(n * mean - SeqSum(scores)) <= n
                   /\ \/ /\ std = 10 * Milli
                         /\ ScaledVariance(scores) < n * n * Milli * Milli
                      \/ /\ ScaledVariance(scores) >= n * n * Milli * Milli
                         /\ (std - 1) * (std - 1) * n * n <= ScaledVariance(scores)
                         /\ ScaledVariance(scores) <= (std + 2) * (std + 2) * n * n

\* C8 witness: a simulation with use_cached_data false over a history that holds
\* two scores of its category.
C8_Witness ==
    /\ IsSampled /\ ~call.info.use_cached
    /\ Cardinality(RowsOf(call.sim[1].risk_category)) >= 2
    /\ call.info.risk_mean = 50 * Milli /\ call.info.risk_std = 15 * Milli

\* C9: the deviation handed to the sampler is never below 1.0; 2 or more scores
\* whose deviation is below 1.0 are sampled with 10.0, and the history [50, 50]
\* with mean 50 and deviation 10.0.
C9_DeviationFloor ==
    IsSampled =>
        LET scores == call.info.scores
            n == Len(scores)
        IN  /\ call.info.risk_std >= 1 * Milli
            /\ (n >= 2 /\ ScaledVariance(scores) < n * n * Milli * Milli) =>
                   call.info.risk_std = 10 * Milli
            /\ scores = <<50 * Milli, 50 * Milli>> =>
                   call.info.risk_mean = 50 * Milli /\ call.info.risk_std = 10 * Milli

\* C9 witness: a simulation over the history [50, 50].
C9_Witness ==
    /\ IsSampled
    /\ call.info.scores = <<50 * Milli, 50 * Milli>>
    /\ call.info.risk_std = 10 * Milli

(***************************************************************************)
(* Property of the history query (SpecHist)                                *)
(***************************************************************************)
\* the scores of the min(limit, n) newest rows of a category, newest first, by
\* position in the table
NewestScores(risk_category, limit) ==
    LET Mine(i) == history[i].risk_category = risk_category
        mine == SelectSeq([i \in 1..Len(history) |-> i], Mine)
        n == Len(mine)
        m == IF n > limit THEN limit ELSE n
    IN  [j \in 1..m |-> history[mine[n - j + 1]].score]

\* C10: the scores run_simulation reads for a category are the min(30, n) most
\* recently appended scores of that category, newest first, and no other.
C10_ReadsNewest ==
    (call.op = "simulate" /\ call.info.use_cached /\ call.info.readOk) =>
        call.info.scores = NewestScores(call.sim[1].risk_category, 30)

\* C10 witness: a simulation over more than 30 hr records with market records
\* among the newest rows read exactly 30 scores.
C10_Witness ==
    /\ call.op = "simulate" /\ call.info.use_cached /\ call.info.readOk
    /\ call.sim[1].risk_category = "hr"
    /\ Cardinality(RowsOf("hr")) > 30
    /\ Len(call.info.scores) = 30
    /\ \E i \in 1..Len(history) :
           i > Len(history) - 30 /\ history[i].risk_category = "market"

(***************************************************************************)
(* Properties of the simulator's results (SpecSim)                         *)
(***************************************************************************)
InUnit(x) == 0 <= x /\ x <= 100 * Milli

\* a summary's mean and percentiles lie in [0,100] and the percentiles are ordered
SummaryInRange(r) ==
    /\ InUnit(r.mean)
    /\ InUnit(r.percentiles.p5) /\ InUnit(r.percentiles.p50) /\ InUnit(r.percentiles.p95)
    /\ r.percentiles.p5 <= r.percentiles.p50
    /\ r.percentiles.p50 <= r.percentiles.p95

SampledStatisticsInRange ==
    /\ call.op = "simulate" /\ call.sim[1].iterations # 0 => SummaryInRange(call.sim[1])
    /\ call.op = "scenarios" => \A i \in 1..Len(call.scen) : SummaryInRange(call.scen[i])

IsSimulation == call.op = "simulate"

\* the result is the fixed fallback for the requested category and iterations
IsFallbackOfRequest ==
    /\ call.sim[1].risk_category = call.inp[1].risk_category
    /\ call.sim[1].iterations = call.inp[1].iterations
    /\ call.sim[1].mean = 50 * Milli
    /\ call.sim[1].std = 10 * Milli
    /\ call.sim[1].percentiles = [p5 |-> 35 * Milli, p50 |-> 50 * Milli, p95 |-> 65 * Milli]

\* C12 (as claimed): a bad category, a failing read or store and an invalid iteration
\* count each make run_simulation return the fixed fallback result.
C12_FailureGivesFallback ==
    LET failed == \/ call.inp[1].risk_category \notin Categories
                  \/ call.info.use_cached /\ ~call.info.readOk
                  \/ ~call.commit[1]
                  \/ call.inp[1].iterations < 1
    IN  IsSimulation /\ failed => IsFallbackOfRequest

\* C12 (corrected): whenever a step of run_simulation raises, which a negative
\* iteration count always does and an iteration count of at least 1 never does, the
\* call returns the fixed fallback result (mean 50.0, std 10.0, percentiles 35.0, 50.0,
\* 65.0) with the requested category and iterations; a bad category, a failing read
\* and a failing store do not raise and give a sampled result.
C12_RaiseGivesFallback ==
    IsSimulation =>
        /\ ~call.info.sampled => IsFallbackOfRequest
        /\ call.inp[1].iterations < 0 => ~call.info.sampled
        /\ call.inp[1].iterations >= 1 =>
               /\ call.info.sampled
               /\ call.sim[1].risk_category = call.inp[1].risk_category
               /\ call.sim[1].iterations = call.inp[1].iterations
               /\ call.sim[1].mean = NpMean(call.info.samples)

\* C12 witness: a negative iteration count for an unknown category was answered with
\* the fallback result.
C12_Witness ==
    /\ IsSimulation
    /\ call.inp[1].iterations < 0
    /\ call.inp[1].risk_category = "bogus"
    /\ ~call.info.sampled
    /\ IsFallbackOfRequest

\* C13 (as claimed): no public operation lets an exception reach its caller: each
\* returns a result object for every input, a scenario mapping with a label lacking
\* mean or std, or with a negative std, included.
C13_NoExceptionReachesCaller == ~call.raised

\* the operations that do catch everything: the category computations,
\* calculate_all_risks and run_simulation
CaughtOperationsReturn == call.op # "scenarios" => ~call.raised

\* the returned result carries the statistics of the clipped samples
IsSampledResult ==
    /\ call.info.sampled
    /\ call.sim[1].mean = NpMean(call.info.samples)
    /\ call.sim[1].std = NpStd(call.info.samples)
    /\ call.sim[1].percentiles = Statistics(call.info.samples).percentiles

\* C14: when the read of the historical scores fails inside run_simulation the
\* history counts as empty: the sampler gets mean 50.0 and deviation 15.0, and a
\* request of at least one iteration returns the statistics of its samples, not the
\* fixed fallback result.
C14_FailedReadGivesDefaults ==
    IsSimulation /\ call.info.use_cached /\ ~call.info.readOk =>
        /\ call.info.scores = <<>>
        /\ call.info.risk_mean = 50 * Milli
        /\ call.info.risk_std = 15 * Milli
        /\ call.inp[1].iterations >= 1 => IsSampledResult

\* C14 witness: the read failed although the category has two or more records, and
\* the call returned the statistics of its three samples.
C14_Witness ==
    /\ IsSimulation
    /\ call.info.use_cached /\ ~call.info.readOk
    /\ Cardinality(RowsOf(call.inp[1].risk_category)) >= 2
    /\ call.inp[1].iterations = 3
    /\ IsSampledResult
    /\ call.sim[1].mean # 50 * Milli

(***************************************************************************)
(* Properties of failing appends (Spec)                                    *)
(***************************************************************************)
\* the i-th result of the last call is what its formula computed
ReturnsFormulaResult(i) ==
    /\ call.risk[i].raw_data = FormulaOfCall(i).raw
    /\ call.risk[i].raw_data # ErrorMarker
    /\ call.risk[i].score = Round2(Clamp(FormulaOfCall(i).score))

\* a call whose append failed returned what it computed
FailedAppendReturnsComputed ==
    /\ IsRiskCall =>
           \A i \in 1..Len(call.risk) :
               ~call.commit[i] /\ ~FormulaOfCall(i).exc => ReturnsFormulaResult(i)
    /\ IsSimulation /\ ~call.commit[1] /\ call.inp[1].iterations >= 1 =>
           IsSampledResult

\* C15: when the append of the RiskScore or SimulationResult record fails, the
\* category computation or simulation still returns the result it computed (the
\* formula's score, the statistics of the samples), and the failed append leaves
\* the history exactly as it was.
C15_FailedAppendKeepsResult ==
    /\ []FailedAppendReturnsComputed
    /\ [][/\ IsRiskStep =>
                 /\ (\A i \in 1..Len(call'.risk) : ~call'.commit[i])
                        => history' = history
                 /\ AppendedFor(TRUE)
          /\ call'.op = "simulate" /\ ~call'.commit[1] =>
                 mcHistory' = mcHistory /\ history' = history
         ]_vars

\* C15 witness: with records already in both histories, a simulation whose append
\* failed returned the statistics of its samples.
C15_Witness ==
    /\ IsSimulation
    /\ ~call.commit[1]
    /\ IsSampledResult
    /\ Len(history) >= 1
    /\ Len(mcHistory) >= 1

\* a category computation whose append failed returned its formula's score
FailedStoreReturnsScore ==
    /\ call.op = "hr"
    /\ ~call.commit[1]
    /\ call.risk[1].score = 52 * Milli
    /\ Len(history) >= 1

(***************************************************************************)
(* Properties of the SimulationResult history (Spec)                       *)
(***************************************************************************)
\* the last record of the new SimulationResult history repeats the returned result
LastRecordIsResult ==
    LET record == mcHistory'[Len(mcHistory')]
        result == call'.sim[1]
    IN  /\ record.risk_category = result.risk_category
        /\ record.mean = result.mean
        /\ record.std = result.std
        /\ record.percentiles = result.percentiles
        /\ record.iterations = result.iterations
        /\ record.mean = NpMean(call'.info.samples)

\* this simulation appended exactly one record, repeating its result
AppendedSimulation ==
    /\ Len(mcHistory') = Len(mcHistory) + 1
    /\ IsPrefix(mcHistory, mcHistory')
    /\ LastRecordIsResult

\* C16 (as claimed): every run_simulation call that returns a sampled result has
\* appended exactly one SimulationResult record whose category, mean, std,
\* percentiles and iterations are those of the returned result.
C16_SimulationAppended ==
    [][call'.op = "simulate" /\ call'.info.sampled => AppendedSimulation]_vars

\* C16 (corrected): a run_simulation call that returns a sampled result has appended
\* exactly one SimulationResult record repeating the category, mean, std, percentiles
\* and iterations of the returned result (the statistics of the samples) when the
\* commit succeeded, and no record when it failed; the fallback appends none.
C16_CommittedSimulationAppended ==
    [][call'.op = "simulate" =>
           IF call'.info.sampled /\ call'.commit[1]
           THEN AppendedSimulation
           ELSE mcHistory' = mcHistory
      ]_vars

\* C16 witness: two simulations each appended their record; the newer one repeats
\* the result just returned.
C16_Witness ==
    /\ IsSimulation
    /\ IsSampledResult
    /\ call.commit[1]
    /\ Len(mcHistory) = 2
    /\ mcHistory[2].mean = call.sim[1].mean
    /\ mcHistory[2].percentiles = call.sim[1].percentiles
    /\ mcHistory[2].risk_category = call.sim[1].risk_category

(***************************************************************************)
(* Properties of scenario mode (Spec)                                      *)
(***************************************************************************)
\* the mapping a scenario request runs on: its own, or the three built-in labels
RequestedScenarios ==
    IF call.inp[1].given THEN call.inp[1].scenarios
    ELSE << [label |-> "optimistic", mean |-> 30 * Milli, std |-> 5 * Milli],
            [label |-> "baseline", mean |-> 50 * Milli, std |-> 10 * Milli],
            [label |-> "pessimistic", mean |-> 70 * Milli, std |-> 15 * Milli] >>

\* one summary per requested label, in the mapping's order, each the statistics of
\* 5000 clipped samples drawn with that label's own mean and deviation
SummaryPerLabel ==
    LET requested == RequestedScenarios
    IN  /\ Len(call.scen) = Len(requested)
        /\ Len(call.inp[1].sampler) = Len(requested)
        /\ \A i \in 1..Len(requested) :
               /\ call.scen[i].label = requested[i].label
               /\ call.inp[1].sampler[i].mean = requested[i].mean
               /\ call.inp[1].sampler[i].std = requested[i].std
               /\ call.inp[1].sampler[i].size = 5000
               /\ Count(call.inp[1].draws[i]) = 5000
               /\ call.scen[i].mean = NpMean(ClipRuns(call.inp[1].draws[i]))
               /\ call.scen[i].percentiles =
                      Statistics(ClipRuns(call.inp[1].draws[i])).percentiles

\* C17: whenever run_multiple_scenarios returns, it returns one distribution
\* summary for each label of the scenario mapping and for no other label (optimistic
\* {30,5}, baseline {50,10}, pessimistic {70,15} when no mapping is given), each
\* drawn with 5000 samples from that label's own mean and std; and the call leaves
\* the RiskScore history and the SimulationResult history as they were.
C17_ScenariosPerLabelNoWrites ==
    /\ [](call.op = "scenarios" /\ ~call.raised => SummaryPerLabel)
    /\ [][call'.op = "scenarios" => history' = history /\ mcHistory' = mcHistory]_vars

\* C17 witness: with records in both histories, a request without a mapping
\* returned the three built-in labels, the samples of the pessimistic one clipped.
C17_Witness ==
    /\ call.op = "scenarios"
    /\ ~call.raised
    /\ ~call.inp[1].given
    /\ Len(call.scen) = 3
    /\ call.scen[3].label = "pessimistic"
    /\ call.scen[3].percentiles.p95 = 100 * Milli
    /\ Len(history) >= 1
    /\ Len(mcHistory) >= 1

(***************************************************************************)
(* Properties of parallel category computations (SpecPar)                  *)
(***************************************************************************)
\* the parallel computations have all returned and their results are in call
Joined ==
    /\ call.op = "all"
    /\ threads.t["market"].pc = "idle"

\* calculate_all_risks run sequentially on the same answers from the same history
Sequential ==
    LET m == RiskOutcome("market",
                         MarketFormula(call.inp[1], call.inp[2], call.inp[3]),
                         threads.base, Len(threads.base) + 1, call.commit[1])
        s == RiskOutcome("supply_chain", SupplyChainFormula(call.inp[4]),
                         m.history, m.now, call.commit[2])
        r == RiskOutcome("regulatory", RegulatoryFormula(call.inp[5]),
                         s.history, s.now, call.commit[3])
        h == RiskOutcome("hr", HrFormula(call.inp[6]), r.history, r.now, call.commit[4])
    IN  [results |-> <<m.result, s.result, r.result, h.result>>,
         history |-> h.history,
         overall |-> Overall(m.result.score, s.result.score, r.result.score,
                             h.result.score)]

RECURSIVE RowData(_)
\* what a sequence of rows records, apart from ids and times
RowData(rows) ==
    IF rows = <<>> THEN <<>>
    ELSE <<[risk_category |-> Head(rows).risk_category, score |-> Head(rows).score,
            raw_data |-> Head(rows).raw_data]>> \o RowData(Tail(rows))

HrWellFormed ==
    /\ call.inp[1].st # "raise"
    /\ (call.inp[1].st = "data" /\ Len(call.inp[1].vals) >= 2) =>
           call.inp[1].vals[1].kind # "bad" /\ call.inp[1].vals[2].kind # "bad"

\* a rate as float() reads it: an absent value counts as 0
RateOf(tok) == IF tok.kind = "missing" THEN 0 ELSE tok.v

\* clamp(50 + 10 * (recent - previous), 0, 100) when two observations exist and
\* the most recent exceeds the prior one, 50 otherwise
HrRule ==
    LET bls == call.inp[1]
        two == bls.st = "data" /\ Len(bls.vals) >= 2
        rise == IF two THEN RateOf(bls.vals[1]) - RateOf(bls.vals[2]) ELSE 0
        s == IF rise > 0 THEN 50 * Milli + (10 * rise) \div Fine ELSE 50 * Milli
    IN  IF s > 100 * Milli THEN 100 * Milli ELSE s

\* C19 (as claimed): calculate_hr_risk returns clamp(50 + 10*(recent - previous), 0,
\* 100) when at least two observations exist and the most recent exceeds the prior
\* one, and exactly 50.0 otherwise.
C19_HrExact ==
    call.op = "hr" /\ HrWellFormed => call.risk[1].score = HrRule

\* C19 (corrected): calculate_hr_risk returns that value rounded to two decimals and
\* stores it unrounded; the result is exactly 50.0 with fewer than two observations
\* or no rise, and never below 50.
C19_HrRounded ==
    call.op = "hr" /\ HrWellFormed =>
        /\ call.risk[1].score = Round2(HrRule)
        /\ call.risk[1].raw_data # ErrorMarker
        /\ call.risk[1].score >= 50 * Milli
        /\ call.commit[1] => history[Len(history)].score = HrRule
        /\ (call.inp[1].st # "data" \/ Len(call.inp[1].vals) < 2)
               => call.risk[1].score = 50 * Milli
        /\ (call.inp[1].st = "data" /\ Len(call.inp[1].vals) >= 2
               /\ RateOf(call.inp[1].vals[1]) <= RateOf(call.inp[1].vals[2]))
               => call.risk[1].score = 50 * Milli

\* C19 witness: a rise from 4.0 to 4.15 returned 51.5, stored as computed.
C19_Witness ==
    /\ call.op = "hr"
    /\ call.inp[1] = Data(<<Rate(4150), Rate(4000)>>)
    /\ call.commit[1]
    /\ call.risk[1].score = 51500
    /\ history[Len(history)].score = 51500

\* falling unemployment returned exactly 50.0
FallingRateKeepsBase ==
    /\ call.op = "hr"
    /\ call.inp[1] = Data(<<Rate(3900), Rate(4000)>>)
    /\ call.risk[1].score = 50 * Milli

(***************************************************************************)
(* Properties of default records and the history (Spec)                    *)
(***************************************************************************)
\* no record of the history carries the error marker
NoDefaultInHistory ==
    \A i \in 1..Len(history) : history[i].raw_data # ErrorMarker

\* every result of the last category call that is a default record
DefaultResults ==
    {i \in 1..Len(call.risk) : call.risk[i].raw_data = ErrorMarker}

\* the rows of the history that a call's default result could have produced
DefaultRows ==
    {i \in 1..Len(history) :
        history[i].score = 50 * Milli /\ history[i].raw_data = ErrorMarker}

\* C20: a category computation that returns the default error record has appended
\* no RiskScore record: every record of the history comes from a category formula,
\* so the scores a later run_simulation reads hold no failure default; a computation
\* with every signal absent returns a 50.0 formula result, not the default.
C20_NoDefaultAppended ==
    /\ NoDefaultInHistory
    /\ DefaultRows = {}
    /\ IsRiskCall =>
           \A i \in 1..Len(call.risk) :
               /\ i \in DefaultResults <=> FormulaOfCall(i).exc
               /\ (~FormulaOfCall(i).exc /\ FormulaOfCall(i).raw = <<>>) =>
                      call.risk[i].score = 50 * Milli /\ call.risk[i].raw_data = <<>>
    /\ IsSimulation /\ call.info.use_cached /\ call.info.readOk =>
           call.info.scores = NewestScores(call.inp[1].risk_category, HistoryLimit)

\* each step that returns default records appends nothing for them, and a
\* computation with every signal absent appends its 50.0 record
DefaultAppendsNothing ==
    [][IsRiskStep =>
           Len(history') - Len(history)
               = Cardinality({i \in 1..Len(call'.risk) :
                                 ~FormulaIn(call', i).exc /\ call'.commit[i]})
      ]_vars

\* C20 witness: after a market computation with every signal absent stored its
\* 50.0 record and a simulation ran, a market computation failed over to the
\* default record and the history still holds the one formula record.
C20_Witness ==
    /\ call.op = "market"
    /\ call.risk[1].raw_data = ErrorMarker
    /\ call.risk[1].score = 50 * Milli
    /\ Len(history) = 1
    /\ history[1].risk_category = "market"
    /\ history[1].score = 50 * Milli
    /\ history[1].raw_data = <<>>
    /\ Len(mcHistory) = 1

\* a simulation of the category read the one stored score of two computations
SimulationReadsStoredBase ==
    /\ IsSimulation
    /\ call.inp[1].risk_category = "market"
    /\ call.info.use_cached /\ call.info.readOk
    /\ steps = 3
    /\ call.info.scores = <<50 * Milli>>
    /\ Len(history) = 1
    /\ history[1].raw_data = <<>>


(***************************************************************************)
(* Properties of the signal cache (SpecCache)                              *)
(***************************************************************************)
\* at most one committed entry for each (data_type, source, symbol)
OneEntryPerKey ==
    \A r1, r2 \in cache.rows : RowKey(r1) = RowKey(r2) => r1 = r2

\* the entry _get_cached_data returned had not expired when the query ran
ReadNotExpired ==
    cache.ret.op = "get" /\ cache.ret.found => cache.ret.expires_at > cache.ret.at

\* this step is worker w's _cache_data returning
CacheDataReturns(w) ==
    /\ cache.tx[w].pc \in {"delete", "commit"}
    /\ cache'.tx[w].pc = "idle"

\* the rows of the other keys
OtherKeys(rows, key) == {row \in rows : RowKey(row) # key}

\* the entry worker w's session is writing
WrittenEntry(w) ==
    CacheEntry(cache.nextId, cache.tx[w].key, cache.tx[w].data, cache.tx[w].expires_at)

\* when _cache_data returns, its entry is the entry of its key and the other
\* keys are as before
WriteReplacesEntry ==
    \A w \in Workers :
        CacheDataReturns(w) =>
            /\ Matching(cache'.rows, cache.tx[w].key) = {WrittenEntry(w)}
            /\ OtherKeys(cache'.rows, cache.tx[w].key)
                   = OtherKeys(cache.rows, cache.tx[w].key)

\* C21: in the signal cache, after any sequence and any interleaving of
\* _cache_data and _get_cached_data calls there is at most one entry per
\* (data_type, source, symbol) key, a write replaces the previous entry of its key
\* and leaves every other key unchanged, and _get_cached_data never returns an
\* entry whose expiry time has passed.
C21_CacheOneEntryPerKey ==
    /\ []OneEntryPerKey
    /\ []ReadNotExpired
    /\ [][WriteReplacesEntry]_vars

\* two committed entries of one key
DuplicateEntries == ~OneEntryPerKey

\* a _cache_data call returned without having stored its entry
LostWrite == cache.ret.op = "cache" /\ ~cache.ret.ok

\* with SQLite's single writer the key stays unique
SqliteOneEntryPerKey == cache.engine = "sqlite" => OneEntryPerKey

\* a write that commits adds its entry, removes the entries its DELETE took and
\* nothing else, and with SQLite leaves its entry as the only one of its key; a
\* write that does not commit leaves the table as it was
CommittedWriteReplaces ==
    [][\A w \in Workers :
           CacheDataReturns(w) =>
               IF cache'.ret.ok
               THEN /\ cache'.rows = {row \in cache.rows : row.id \notin cache.tx[w].deleted}
                                         \cup {WrittenEntry(w)}
                    /\ \A row \in cache.rows :
                           row.id \in cache.tx[w].deleted => RowKey(row) = cache.tx[w].key
                    /\ cache.engine = "sqlite" =>
                           Matching(cache'.rows, cache.tx[w].key) = {WrittenEntry(w)}
               ELSE cache'.rows = cache.rows
      ]_vars

\* a read returned an entry, and a later read of the key found it expired
ExpiredEntrySkipped ==
    /\ cache.ret.op = "get" /\ cache.ret.ok /\ ~cache.ret.found
    /\ Matching(cache.rows, cache.ret.key) # {}

====
